---- MODULE Spec2Model ----
(***************************************************************************)
(* Model of the ghost-fund savings backend (src/app.py): the tokenizer of  *)
(* the chat export (parse_messages_from_string), the merge of the          *)
(* parsed messages into the persisted workbook (Data and Summary           *)
(* sheets), the loader used by the read endpoints, and the per-member      *)
(* report with its Friday..Thursday week buckets.                          *)
(*                                                                         *)
(* Representation.                                                         *)
(*  - A date string "M/D/YY" is the triple <<M, D, YY>>; a time string     *)
(*    "H:MM XX" is the triple <<H, MM, XX>> (one space before the marker). *)
(*  - A message text is a sequence of tokens [k, v]: k = "num" (a run of   *)
(*    digits of value v, written without leading zeros), "cur" (tk / taka  *)
(*    / bdt), "comma" (","), "dot" ("."), "colon" (":"), "wgf" (the phrase *)
(*    "weekly ghost fund"), "sp" (the space U+0020), "tab" (a tab) or "word" *)
(*    (other text: it holds no digit, no white space, none of , . : and no *)
(*    currency word, alone or with its neighbours); the text is the        *)
(*    concatenation of its tokens.                                         *)
(*  - A workbook cell holding nothing is "": the writer stores a missing   *)
(*    value as an empty cell and the loader returns an empty cell as the   *)
(*    missing value NA.  A phone or name is a text label, or a number:     *)
(*    "#n" is the integer n (a number cell, an element of an int64 or of   *)
(*    an object column), "#n.0" the float n of a float64 column.  A text   *)
(*    that is a number is the one token [k |-> "number", v |-> n].         *)
(*  - An instant is a point of absolute time, written as the triple        *)
(*    <<ordinal day, second of day, microsecond>> that a clock fixed at    *)
(*    UTC+06:00 shows at it. Wall(t) is what the clock of BD_TZ shows.     *)
(***************************************************************************)
EXTENDS Integers, Sequences, FiniteSets, Bags, TLC

VARIABLES
    file,       \* the workbook OUTPUT_XLSX
    up,         \* the upload requests in progress and their last responses
    rd,         \* the read request in progress: what it has loaded so far
    report,     \* what the last read request returned
    nUploads,   \* upload requests accepted so far
    prior,      \* history: the workbook as it was before the last write began
    lastNew,    \* history: new_rows_count of the last merge saved
    log,        \* history, kept when log.on: the parsed messages of the last merge
                \* begun (sent), and whether it repeats the merge before it (resent)
    tk,         \* a run of the tokenizer: its input lines and its loop variables
    pandas,     \* the pandas the process runs with: "2" (up to 2.x) or "3"
    clock       \* the instants get_bd_now() may return while the process runs

vars == <<file, up, rd, report, nUploads, prior, lastNew, log, tk, pandas, clock>>

(***************************************************************************)
(* Bounds of the model.                                                    *)
(***************************************************************************)
MaxUploads == 2
MaxMsgs == 2
MaxLines == 4

(***************************************************************************)
(* Missing values.                                                         *)
(***************************************************************************)
NaT == -1
NA == "<NA>"
NoSender == ""

(***************************************************************************)
(* Calendar arithmetic (datetime / pandas Timestamp).                      *)
(***************************************************************************)
IsLeap(y) == (y % 4 = 0) /\ ((y % 100 # 0) \/ (y % 400 = 0))

DaysInMonth(y, m) ==
    IF m = 2 THEN (IF IsLeap(y) THEN 29 ELSE 28)
    ELSE IF m \in {4, 6, 9, 11} THEN 30 ELSE 31

\* the days of the year y before its month m
DaysBeforeMonth(y, m) ==
    IF m \in 1..12
    THEN <<0, 31, 59, 90, 120, 151, 181, 212, 243, 273, 304, 334>>[m]
         + (IF m > 2 /\ IsLeap(y) THEN 1 ELSE 0)
    ELSE 0

\* date.toordinal(): 1 is Monday, 1 January of year 1
ToOrdinal(y, m, d) ==
    (y - 1) * 365 + ((y - 1) \div 4) - ((y - 1) \div 100) + ((y - 1) \div 400)
    + DaysBeforeMonth(y, m) + d

\* datetime.weekday(): Monday = 0 .. Sunday = 6
Weekday(ord) == (ord + 6) % 7

\* the %y directive: 69..99 are 1969..1999, 0..68 are 2000..2068
FullYear(yy) == IF yy >= 69 THEN 1900 + yy ELSE 2000 + yy

ValidYMD(y, m, d) == m \in 1..12 /\ d >= 1 /\ d <= DaysInMonth(y, m)

\* pd.to_datetime(s, format="%m/%d/%y", errors="coerce"): the ordinal day, or NaT
ParseDate(ds) ==
    IF ValidYMD(FullYear(ds[3]), ds[1], ds[2])
    THEN ToOrdinal(FullYear(ds[3]), ds[1], ds[2])
    ELSE NaT

\* pd.to_datetime(s, format="%I:%M %p", errors="coerce").time(): minute of day, or NaT
ParseTime(ts) ==
    IF ts[1] \in 1..12 /\ ts[2] \in 0..59 /\ ts[3] \in {"AM", "PM"}
    THEN ((ts[1] % 12) + (IF ts[3] = "PM" THEN 12 ELSE 0)) * 60 + ts[2]
    ELSE NaT

(***************************************************************************)
(* Text classification and amount extraction.                              *)
(***************************************************************************)
Num(n) == [k |-> "num", v |-> n]
Cur == [k |-> "cur", v |-> 0]
Wgf == [k |-> "wgf", v |-> 0]
Word == [k |-> "word", v |-> 0]
Sp == [k |-> "sp", v |-> 0]
Tab == [k |-> "tab", v |-> 0]

\* \s, and what str.strip() removes: the space and the tab
IsSpace(t) == t.k \in {"sp", "tab"}
Comma == [k |-> "comma", v |-> 0]
Dot == [k |-> "dot", v |-> 0]
Colon == [k |-> "colon", v |-> 0]

\* the index of the first token at or after i that is not white space (\s*)
RECURSIVE SkipSp(_, _)
SkipSp(text, i) ==
    IF i <= Len(text) /\ IsSpace(text[i]) THEN SkipSp(text, i + 1) ELSE i

\* str.strip(): the text without its leading and trailing white space
RECURSIVE Strip(_)
Strip(text) ==
    IF text = <<>> THEN <<>>
    ELSE IF IsSpace(Head(text)) THEN Strip(Tail(text))
    ELSE IF IsSpace(text[Len(text)]) THEN Strip(SubSeq(text, 1, Len(text) - 1))
    ELSE text

\* the number of digits of n
RECURSIVE Digits(_)
Digits(n) == IF n < 10 THEN 1 ELSE 1 + Digits(n \div 10)

RECURSIVE Pow10(_)
Pow10(n) == IF n = 0 THEN 1 ELSE 10 * Pow10(n - 1)

\* [0-9][0-9,]*: the last token of the number that begins with the digits text[i]
RECURSIVE NumberEnd(_, _)
NumberEnd(text, i) ==
    IF i < Len(text) /\ text[i + 1].k \in {"num", "comma"}
    THEN NumberEnd(text, i + 1) ELSE i

\* int(re.sub(r"[^\d]", "", num_str)) of the number text[i..j], after the digits acc
RECURSIVE NumberValue(_, _, _, _)
NumberValue(text, i, j, acc) ==
    IF i > j THEN acc
    ELSE IF text[i].k = "num"
    THEN NumberValue(text, i + 1, j, acc * Pow10(Digits(text[i].v)) + text[i].v)
    ELSE NumberValue(text, i + 1, j, acc)

\* \.?: the place behind the currency word text[i] and the dot that may follow it
AfterCurrency(text, i) ==
    IF i < Len(text) /\ text[i + 1].k = "dot" THEN i + 2 ELSE i + 1

\* currency_amount_pattern.finditer: the amounts of the non-overlapping matches,
\* left to right: "currency .? \s* number" or "number \s* currency .?"
RECURSIVE CurrencyMatches(_, _)
CurrencyMatches(text, i) ==
    IF i > Len(text) THEN <<>>
    ELSE IF text[i].k = "cur"
    THEN LET j == SkipSp(text, AfterCurrency(text, i))
         IN  IF j <= Len(text) /\ text[j].k = "num"
             THEN <<NumberValue(text, j, NumberEnd(text, j), 0)>>
                  \o CurrencyMatches(text, NumberEnd(text, j) + 1)
             ELSE CurrencyMatches(text, i + 1)
    ELSE IF text[i].k = "num"
    THEN LET j == SkipSp(text, NumberEnd(text, i) + 1)
         IN  IF j <= Len(text) /\ text[j].k = "cur"
             THEN <<NumberValue(text, i, NumberEnd(text, i), 0)>>
                  \o CurrencyMatches(text, AfterCurrency(text, j))
             ELSE CurrencyMatches(text, i + 1)
    ELSE CurrencyMatches(text, i + 1)

RECURSIVE SumSeq(_)
SumSeq(s) == IF s = <<>> THEN 0 ELSE Head(s) + SumSeq(Tail(s))

\* re.fullmatch(r"\d+", text.strip())
IsPlainNumber(text) ==
    Strip(text) # <<>> /\ \A i \in 1..Len(Strip(text)) : Strip(text)[i].k = "num"

HasWeeklyPhrase(text) == \E i \in 1..Len(text) : text[i].k = "wgf"

is_saving_message(text) ==
    IF text = <<>> THEN FALSE
    ELSE IF HasWeeklyPhrase(text) THEN FALSE
    ELSE IF CurrencyMatches(text, 1) # <<>> THEN TRUE
    ELSE IsPlainNumber(text)

\* None is modelled as -1
NoAmount == -1

extract_amount(text) ==
    IF text = <<>> THEN NoAmount
    ELSE IF CurrencyMatches(text, 1) # <<>> THEN SumSeq(CurrencyMatches(text, 1))
    ELSE IF IsPlainNumber(text) THEN NumberValue(Strip(text), 1, Len(Strip(text)), 0)
    ELSE NoAmount

(***************************************************************************)
(* Labels: sender labels, names and phones are text; the three string      *)
(* functions the code applies to them are tabulated over the labels of the *)
(* model (a label outside the tables has no upper-case letter).            *)
(***************************************************************************)
\* str.lower()
Lower(s) ==
    CASE s = "Alice" -> "alice"
      [] s = "ALICE" -> "alice"
      [] s = "Bob" -> "bob"
      [] s = "BOB" -> "bob"
      [] s = "Carol" -> "carol"
      [] s = "Dave" -> "dave"
      [] s = "Unknown" -> "unknown"
      [] OTHER -> s

\* re.sub(r"[^\d+]", "", phone)
normalize_phone(s) ==
    CASE s = "+880 172" -> "+880172"
      [] s = "+880172" -> "+880172"
      [] s = "+880171" -> "+880171"
      [] OTHER -> ""

\* any(ch.isdigit() for ch in sender_original)
HasDigit(s) == s \in {"+880 172", "+880172", "+880171"}

(***************************************************************************)
(* Address book: contact_df is a sequence of rows [saved, display, phone]  *)
(* (an empty cell is "").                                                  *)
(***************************************************************************)
FinalName(c) ==
    IF c.saved # "" THEN c.saved
    ELSE IF c.display # "" THEN c.display
    ELSE c.phone

ContactEntry(c) ==
    [name |-> IF FinalName(c) # "" THEN FinalName(c) ELSE c.phone, phone |-> c.phone]

\* rows of the table that set name_map[key]; the last one wins
NameRows(df, key) ==
    {i \in 1..Len(df) : FinalName(df[i]) # "" /\ Lower(FinalName(df[i])) = key}

\* rows of the table that set phone_map[key]; the last one wins
PhoneRows(df, key) ==
    {i \in 1..Len(df) : normalize_phone(df[i].phone) # ""
                        /\ normalize_phone(df[i].phone) = key}

MaxOf(S) == CHOOSE x \in S : \A y \in S : y <= x

\* the (name, phone) a sender label resolves to
ResolveContact(df, sender) ==
    IF NameRows(df, Lower(sender)) # {}
    THEN ContactEntry(df[MaxOf(NameRows(df, Lower(sender)))])
    ELSE IF HasDigit(sender) /\ PhoneRows(df, normalize_phone(sender)) # {}
    THEN ContactEntry(df[MaxOf(PhoneRows(df, normalize_phone(sender)))])
    ELSE [name |-> sender, phone |-> ""]

(***************************************************************************)
(* The persisted workbook.  file.st is "absent" (no file), "partial" (the  *)
(* writer has opened and truncated it and not yet saved) or "ok"; data is  *)
(* the Data sheet, summary the Summary sheet, ver counts the saves.        *)
(***************************************************************************)
\* a number of a Name or Phone column, over the labels of the model
IsNumber(v) == v \in {"#880171", "#880171.0"}

\* lib.maybe_convert_numeric on a cell: the integer a text or a number cell is
\* converted to ("" when the text is no number)
ToInt(v) ==
    CASE v \in {"+880171", "880171", "880171.0", "#880171", "#880171.0"} -> "#880171"
      [] OTHER -> ""

\* a text that parses as a number and not as an integer (it has a decimal point)
IsFloatText(v) == v \in {"880171.0"}

\* the same number as an element of a float64 column
ToFloat(v) ==
    CASE v \in {"+880171", "880171", "880171.0", "#880171", "#880171.0"} -> "#880171.0"
      [] OTHER -> ""

\* str(v) of astype(str): an integer prints its digits, a float a trailing ".0"
Str(v) ==
    CASE v = "#880171" -> "880171"
      [] v = "#880171.0" -> "880171.0"
      [] OTHER -> v

\* a number as the value of a text column
Number(n) == [k |-> "number", v |-> n]

\* a written cell: a missing value is an empty cell, a number a number cell (an
\* integral float is read back as an integer), a text a text cell
ToCell(v) == IF v = NA THEN "" ELSE IF IsNumber(v) THEN ToInt(v) ELSE v

\* DataFrame.to_excel of the Data sheet
ToExcelData(df) ==
    [i \in 1..Len(df) |->
        [df[i] EXCEPT !.Name = ToCell(@), !.Phone = ToCell(@)]]

\* read_excel is called without dtype: a column whose cells are all empty or
\* numbers (number cells, or texts that parse as numbers) is returned as a
\* numeric column; col is the set of the cells of the column
NumericColumn(col) == \A v \in col : v = "" \/ ToInt(v) # ""

\* a numeric column is float64 when it has an empty cell (NaN) or a text with
\* a decimal point, int64 otherwise
FloatColumn(col) == "" \in col \/ \E v \in col : IsFloatText(v)

\* the value read_excel returns for the cell v of a column: NaN for an empty
\* cell; in a numeric column the number, as a float in a float64 column and as
\* an integer in an int64 one; else the cell
ReadCell(v, col) ==
    IF v = "" THEN NA
    ELSE IF NumericColumn(col) THEN (IF FloatColumn(col) THEN ToFloat(v) ELSE ToInt(v))
    ELSE v

\* the same inference on a howSaved cell: the text of a ledger row has a
\* currency word or is a run of digits, and only the run of digits parses
TextIsNumber(text) ==
    \/ Len(text) = 1 /\ text[1].k = "number"
    \/ IsPlainNumber(text)

\* the howSaved column is never empty in a row, so a numeric one is int64
ReadText(text, col) ==
    IF \A t \in col : TextIsNumber(t)
    THEN (IF text[1].k = "number" THEN text
          ELSE <<Number(NumberValue(Strip(text), 1, Len(Strip(text)), 0))>>)
    ELSE text

\* pd.read_excel(sheet_name="Data")
ReadExcelData(cells) ==
    [i \in 1..Len(cells) |->
        [cells[i] EXCEPT
            !.Name = ReadCell(@, {cells[j].Name : j \in 1..Len(cells)}),
            !.Phone = ReadCell(@, {cells[j].Phone : j \in 1..Len(cells)}),
            !.howSaved = ReadText(@, {cells[j].howSaved : j \in 1..Len(cells)})]]

\* DataFrame.to_excel of the Summary sheet
ToExcelSummary(sm) ==
    {[s EXCEPT !.Name = ToCell(@), !.Phone = ToCell(@)] : s \in sm}

\* one row of pd.read_excel(sheet_name="Summary")
ReadSummaryRow(s, cells) ==
    [s EXCEPT !.Name = ReadCell(@, {t.Name : t \in cells}),
              !.Phone = ReadCell(@, {t.Phone : t \in cells})]

\* pd.read_excel(sheet_name="Summary"): the rows read, as a bag (two rows of
\* the sheet may read as the same row)
ReadExcelSummary(cells) ==
    BagOfAll(LAMBDA s : ReadSummaryRow(s, cells), SetToBag(cells))

Readable(f) == f.st = "ok"

\* the max Date of the Data sheet; None (here NaT) without a readable, non-empty
\* sheet or without a parsable date
get_last_date_from_excel(f) ==
    IF ~Readable(f) THEN NaT
    ELSE IF f.data = <<>> THEN NaT
    ELSE MaxOf({ParseDate(f.data[i].Date) : i \in 1..Len(f.data)})

(***************************************************************************)
(* The merge.                                                              *)
(***************************************************************************)
\* the date test with < for <=: a message dated the cutoff day is not skipped
SkippedByCutoffStrict(msg_date, last_excel_date) ==
    last_excel_date # NaT /\ msg_date # NaT /\ msg_date < last_excel_date

\* the date test of the loop: TRUE when the message is skipped as already recorded
SkippedByCutoff(msg_date, last_excel_date) ==
    last_excel_date # NaT /\ msg_date # NaT /\ msg_date <= last_excel_date

\* TRUE when the loop appends a row for the message
Emits(msg, last_excel_date) ==
    /\ msg.sender # NoSender
    /\ ~SkippedByCutoff(ParseDate(msg.date), last_excel_date)
    /\ is_saving_message(msg.text)
    /\ extract_amount(msg.text) # NoAmount
    /\ extract_amount(msg.text) # 0

NewRow(msg, contact_df) ==
    [Date |-> msg.date, Time |-> msg.time,
     Name |-> ResolveContact(contact_df, msg.sender).name,
     Phone |-> ResolveContact(contact_df, msg.sender).phone,
     Amount |-> extract_amount(msg.text), howSaved |-> msg.text]

RECURSIVE RowsNew(_, _, _)
RowsNew(messages, contact_df, last_excel_date) ==
    IF messages = <<>> THEN <<>>
    ELSE (IF Emits(Head(messages), last_excel_date)
          THEN <<NewRow(Head(messages), contact_df)>> ELSE <<>>)
         \o RowsNew(Tail(messages), contact_df, last_excel_date)

\* sort keys, descending with missing values last: a smaller key sorts first
DateKey(r) == IF ParseDate(r.Date) = NaT THEN 1 ELSE 0 - ParseDate(r.Date)
TimeKey(r) == IF ParseTime(r.Time) = NaT THEN 1 ELSE 0 - ParseTime(r.Time)

SortsBefore(a, b) ==
    \/ DateKey(a) < DateKey(b)
    \/ DateKey(a) = DateKey(b) /\ TimeKey(a) < TimeKey(b)

\* insert r behind every row that does not sort after it (stable)
RECURSIVE InsertSorted(_, _)
InsertSorted(sorted, r) ==
    IF sorted = <<>> THEN <<r>>
    ELSE IF SortsBefore(r, Head(sorted)) THEN <<r>> \o sorted
    ELSE <<Head(sorted)>> \o InsertSorted(Tail(sorted), r)

RECURSIVE SortRows(_, _)
SortRows(rows, acc) ==
    IF rows = <<>> THEN acc ELSE SortRows(Tail(rows), InsertSorted(acc, Head(rows)))

\* the new rows left in message order
SortNewRowsSkipped(rows) == rows

\* df_data_new.sort_values(["Date_sort", "Time_sort"], ascending=[False, False])
SortNewRows(rows) == SortRows(rows, <<>>)

\* pd.concat([df_old, df_data_new], ignore_index=True)
ConcatFrames(df_old, df_new) == df_old \o df_new

RECURSIVE SumAmount(_)
SumAmount(rows) == IF rows = <<>> THEN 0 ELSE Head(rows).Amount + SumAmount(Tail(rows))

\* groupby drops the rows with a missing value in a key column
GroupKeys(df) ==
    {<<df[i].Name, df[i].Phone>> : i \in {j \in 1..Len(df) : df[j].Name # NA /\ df[j].Phone # NA}}

\* df_data.groupby(["Name", "Phone"], as_index=False)["Amount"].sum()
GroupBySum(df) ==
    {[Name |-> key[1], Phone |-> key[2],
      Total_Amount |-> SumAmount(SelectSeq(df, LAMBDA r : r.Name = key[1] /\ r.Phone = key[2]))]
        : key \in GroupKeys(df)}

\* df_old: the Data sheet, or the empty frame when there is no readable file
OldFrame(f) == IF Readable(f) THEN ReadExcelData(f.data) ELSE <<>>

build_dataframes_from_messages(messages, contact_df, f) ==
    LET last_excel_date == get_last_date_from_excel(f)
        rows_new == RowsNew(messages, contact_df, last_excel_date)
        df_old == OldFrame(f)
        df_data == IF rows_new = <<>> THEN df_old
                   ELSE ConcatFrames(df_old, SortNewRows(rows_new))
    IN  [df_data |-> df_data,
         df_summary |-> GroupBySum(df_data),
         new_rows_count |-> Len(rows_new)]

(***************************************************************************)
(* Inputs: the parsed messages of an export and the address book.          *)
(* 3/1/24 is a Friday; 3/5 Tuesday, 3/6 Wednesday; 25/3/70 is day-first.   *)
(* The marker PP is one the pattern date_prefix accepts beside AM and PM.  *)
(***************************************************************************)
Msg(d, t, s, x) == [date |-> d, time |-> t, sender |-> s, text |-> x]

MessagePool ==
    { Msg(<<3, 5, 24>>, <<9, 0, "PM">>, "Alice", <<Word, Num(160), Cur>>),
      Msg(<<3, 6, 24>>, <<8, 15, "AM">>, "Bob", <<Num(200)>>),
      Msg(<<3, 6, 24>>, <<13, 0, "PM">>, "+880 172",
          <<Cur, Dot, Num(90), Word, Num(1), Comma, Num(80), Tab, Cur>>),
      Msg(<<25, 3, 70>>, <<7, 0, "PP">>, "BOB", <<Num(50), Cur>>),
      Msg(<<3, 8, 24>>, <<9, 30, "PM">>, "ALICE", <<Wgf, Cur, Num(90)>>),
      Msg(<<3, 8, 24>>, <<9, 45, "PM">>, NoSender, <<Num(300), Sp, Cur>>),
      Msg(<<3, 8, 24>>, <<10, 5, "PM">>, "Bob", <<Num(0), Sp, Cur>>) }

MessageLists == UNION {[1..n -> MessagePool] : n \in 0..MaxMsgs}

Contact(s, d, p) == [saved |-> s, display |-> d, phone |-> p]

Book == <<Contact("Alice", "", "+880171"), Contact("", "Carol", "+880 172")>>

ContactTables == {Book}

Uploaders == {"u1", "u2"}

(***************************************************************************)
(* The tokenizer.  A raw line of the export is a sequence of tokens: the   *)
(* text tokens, and                                                        *)
(*    "stamp"  the text "M/D/Y, H:MM xx - " of entry v of Stamps,          *)
(*    "label"  the sender label SenderLabels[v],                           *)
(*    "nnbsp"  the narrow no-break space U+202F,                           *)
(*    "lrm"    the left-to-right mark U+200E.                              *)
(* A number below 100 of a stamp is written with the digits the pattern    *)
(* date_prefix asks for; a marker "" is a stamp without AM / PM.  In the   *)
(* lines of the model the text before the first ": " of a stamped line is  *)
(* empty or one label, with or without white space around it.              *)
(***************************************************************************)
SenderLabels == <<"Alice", "Bob", "+880 172">>

Stamps ==
    << <<<<3, 5, 24>>, <<9, 0, "pM">>>>,
       <<<<3, 6, 24>>, <<8, 15, "AM">>>>,
       <<<<3, 7, 2024>>, <<10, 0, "AM">>>>,
       <<<<3, 8, 24>>, <<21, 30, "">>>> >>

Stamp(n) == [k |-> "stamp", v |-> n]
Label(n) == [k |-> "label", v |-> n]
Nnbsp == [k |-> "nnbsp", v |-> 0]
Lrm == [k |-> "lrm", v |-> 0]

\* raw.replace("\u202f", " ").replace("\u200e", "")
RECURSIVE Replace(_)
Replace(raw) ==
    IF raw = <<>> THEN <<>>
    ELSE (IF Head(raw).k = "lrm" THEN <<>>
          ELSE IF Head(raw).k = "nnbsp" THEN <<Sp>>
          ELSE <<Head(raw)>>) \o Replace(Tail(raw))

\* the characters of a stamp that is part of a text: "M/D/Y, H:MM xx - "
StampText(n) ==
    LET d == Stamps[n][1]
        t == Stamps[n][2]
    IN  <<Num(d[1]), Word, Num(d[2]), Word, Num(d[3]), Comma, Sp,
          Num(t[1]), Colon, Num(t[2]), Sp>>
        \o (IF t[3] = "" THEN <<>> ELSE <<Word, Sp>>) \o <<Word, Sp>>

\* a text as the text tokens of its characters
RECURSIVE Chars(_)
Chars(text) ==
    IF text = <<>> THEN <<>>
    ELSE (IF Head(text).k = "stamp" THEN StampText(Head(text).v) ELSE <<Head(text)>>)
         \o Chars(Tail(text))

\* [APMapm]{2}: the two-letter markers, by their upper-case writing
MarkersOf(upper) ==
    CASE upper = "AA" -> {"AA", "Aa", "aA", "aa"}
      [] upper = "AP" -> {"AP", "Ap", "aP", "ap"}
      [] upper = "AM" -> {"AM", "Am", "aM", "am"}
      [] upper = "PA" -> {"PA", "Pa", "pA", "pa"}
      [] upper = "PP" -> {"PP", "Pp", "pP", "pp"}
      [] upper = "PM" -> {"PM", "Pm", "pM", "pm"}
      [] upper = "MA" -> {"MA", "Ma", "mA", "ma"}
      [] upper = "MP" -> {"MP", "Mp", "mP", "mp"}
      [] upper = "MM" -> {"MM", "Mm", "mM", "mm"}

UpperMarkers == {"AA", "AP", "AM", "PA", "PP", "PM", "MA", "MP", "MM"}

\* str.upper() of the marker of a time
Upper(marker) ==
    IF \E upper \in UpperMarkers : marker \in MarkersOf(upper)
    THEN CHOOSE upper \in UpperMarkers : marker \in MarkersOf(upper)
    ELSE marker

\* \d{1,2}/\d{1,2}/\d{2}
DateShape(d) == d[1] \in 0..99 /\ d[2] \in 0..99 /\ d[3] \in 0..99

\* \d{1,2}:\d{2}\s*[APMapm]{2}
TimeShape(t) ==
    /\ t[1] \in 0..99
    /\ t[2] \in 0..99
    /\ \E upper \in UpperMarkers : t[3] \in MarkersOf(upper)

\* date_prefix.match(line): the pattern is anchored at the start of the line
date_prefix_match(line) ==
    /\ line # <<>>
    /\ line[1].k = "stamp"
    /\ DateShape(Stamps[line[1].v][1])
    /\ TimeShape(Stamps[line[1].v][2])

\* the places of ": " in rest: a colon followed by the space U+0020
ColonSpaces(rest) ==
    {i \in 1..(Len(rest) - 1) : rest[i].k = "colon" /\ rest[i + 1].k = "sp"}

\* ": " in rest
HasColon(rest) == ColonSpaces(rest) # {}

\* the place of the first ": " of rest
FirstColon(rest) ==
    CHOOSE i \in ColonSpaces(rest) : \A j \in ColonSpaces(rest) : i <= j

\* sender.strip() if sender else None
SenderOf(sender) ==
    IF Strip(sender) = <<>> THEN NoSender ELSE SenderLabels[Strip(sender)[1].v]

\* the message a matching line opens
StartMessage(line) ==
    LET stamp == Stamps[line[1].v]
        rest == Tail(line)
        sender == IF HasColon(rest)
                  THEN SubSeq(rest, 1, FirstColon(rest) - 1) ELSE <<>>
        msg_text == IF HasColon(rest)
                    THEN SubSeq(rest, FirstColon(rest) + 2, Len(rest)) ELSE rest
    IN  Msg(stamp[1], <<stamp[2][1], stamp[2][2], Upper(stamp[2][3])>>,
            SenderOf(sender), Strip(Chars(msg_text)))

\* the continuation step with the separator left out
AppendContinuationUnspaced(current, line) ==
    [current EXCEPT !.text = @ \o Strip(Chars(line))]

\* current["text"] += " " + line.strip()
AppendContinuation(current, line) ==
    [current EXCEPT !.text = @ \o <<Sp>> \o Strip(Chars(line))]

\* the raw lines of the exports
LinePool ==
    { <<Stamp(1), Label(1), Colon, Sp, Sp, Word, Sp, Num(160), Nnbsp, Cur, Sp>>,
      <<Lrm, Stamp(2), Word>>,
      <<Stamp(2), Colon, Sp, Word, Colon, Sp, Cur, Dot, Sp, Num(1), Comma, Num(200)>>,
      <<Sp, Num(200), Sp>>,
      <<>>,
      <<Stamp(3), Label(2), Colon, Sp, Num(50), Cur>>,
      <<Sp, Stamp(2), Label(2), Colon, Sp, Num(50)>>,
      <<Stamp(4), Label(1), Colon, Sp>>,
      <<Stamp(2), Label(2), Colon, Tab, Num(50), Sp, Cur>> }

Exports == UNION {[1..n -> LinePool] : n \in 0..MaxLines}

\* no run of the tokenizer
NoParse == [lines |-> <<>>, i |-> 0, current |-> <<>>, messages |-> <<>>, done |-> TRUE]

\* parse_messages_from_string: one turn of the loop over text.splitlines();
\* current is <<>> for None and <<message>> for an open message
ParseLine ==
    /\ ~tk.done
    /\ tk.i < Len(tk.lines)
    /\ LET line == Replace(tk.lines[tk.i + 1])
       IN  IF date_prefix_match(line)
           THEN tk' = [tk EXCEPT !.i = @ + 1,
                                 !.messages = @ \o tk.current,
                                 !.current = <<StartMessage(line)>>]
           ELSE tk' = [tk EXCEPT !.i = @ + 1,
                                 !.current = IF @ = <<>> THEN <<>>
                                             ELSE <<AppendContinuation(@[1], line)>>]
    /\ UNCHANGED <<file, up, rd, report, nUploads, prior, lastNew, log, pandas, clock>>

\* parse_messages_from_string: after the loop the open message is appended and
\* the messages are returned
ParseReturn ==
    /\ ~tk.done
    /\ tk.i = Len(tk.lines)
    /\ tk' = [tk EXCEPT !.messages = @ \o tk.current, !.done = TRUE]
    /\ UNCHANGED <<file, up, rd, report, nUploads, prior, lastNew, log, pandas, clock>>

(***************************************************************************)
(* The upload endpoint.  A request is "idle" (none), "reading" (awaiting   *)
(* the two request bodies) or "writing" (the text is parsed, the merge is  *)
(* computed and the workbook is open for writing).                         *)
(***************************************************************************)
NoFile == [st |-> "absent", data |-> <<>>, summary |-> {}, ver |-> 0]

IdleUpload(response) ==
    [pc |-> "idle",
     df_data |-> <<>>, df_summary |-> {}, new_rows_count |-> 0, resp |-> response]

NoResponse == [status |-> "none", new_rows_added |-> 0]

\* upload_files up to its awaits: the request is accepted and its bodies are read
UploadReceive(u) ==
    /\ up[u].pc = "idle"
    /\ nUploads < MaxUploads
    /\ up' = [up EXCEPT ![u] = [IdleUpload(NoResponse) EXCEPT !.pc = "reading"]]
    /\ nUploads' = nUploads + 1
    /\ UNCHANGED <<file, prior, lastNew, rd, report, tk, log, pandas, clock>>

\* the endpoint as a plain function, run in a worker thread beside other uploads
EventLoopShared(u) == TRUE

\* upload_files is a coroutine and runs from its last await to its return without
\* yielding the event loop: no other upload runs while one is between its reads
\* of the workbook and its save
EventLoopFree(u) == \A v \in Uploaders : up[v].pc # "writing"

\* upload_files: "No messages parsed from txt file."
UploadNoMessages(u) ==
    /\ up[u].pc = "reading"
    /\ EventLoopFree(u)
    /\ up' = [up EXCEPT ![u] = IdleUpload([NoResponse EXCEPT !.status = "400"])]
    /\ UNCHANGED <<file, prior, lastNew, nUploads, rd, report, tk, log, pandas, clock>>

\* upload_files from its last await up to pd.ExcelWriter(OUTPUT_XLSX) in
\* write_excel_from_upload: the text is parsed, the merge is computed from the
\* workbook, and the workbook is opened for writing, which truncates it
MergeBegin(u) ==
    /\ up[u].pc = "reading"
    /\ EventLoopFree(u)
    /\ \E msgs \in MessageLists \ {<<>>}, book \in ContactTables :
         \E r \in {build_dataframes_from_messages(msgs, book, file)} :
             /\ up' = [up EXCEPT ![u] = [@ EXCEPT !.pc = "writing",
                          !.df_data = r.df_data, !.df_summary = r.df_summary,
                          !.new_rows_count = r.new_rows_count]]
             /\ log' = IF log.on
                       THEN [on |-> TRUE, sent |-> msgs,
                             resent |-> (file.st = "ok" /\ msgs = log.sent)]
                       ELSE log
    /\ prior' = IF file.st = "partial" THEN prior ELSE file
    /\ file' = [file EXCEPT !.st = "partial", !.data = <<>>, !.summary = {}]
    /\ UNCHANGED <<nUploads, lastNew, rd, report, tk, pandas, clock>>

\* the end of the with block: both sheets are saved, and upload_files returns
MergeCommit(u) ==
    /\ up[u].pc = "writing"
    /\ file' = [st |-> "ok", data |-> ToExcelData(up[u].df_data),
                summary |-> ToExcelSummary(up[u].df_summary), ver |-> file.ver + 1]
    /\ up' = [up EXCEPT ![u] = IdleUpload(
                 [status |-> "success", new_rows_added |-> up[u].new_rows_count])]
    /\ lastNew' = up[u].new_rows_count
    /\ UNCHANGED <<prior, nUploads, rd, report, tk, log, pandas, clock>>

(***************************************************************************)
(* Instants in BD_TZ and the week rule.                                    *)
(***************************************************************************)
Inst(ord, sec, us) == <<ord, sec, us>>

InstLE(a, b) ==
    \/ a[1] < b[1]
    \/ a[1] = b[1] /\ a[2] < b[2]
    \/ a[1] = b[1] /\ a[2] = b[2] /\ a[3] <= b[3]

\* BD_TZ, Asia/Dhaka: UTC+06:00, and UTC+07:00 from 2009-06-19 23:00 (+06:00)
\* until 2009-12-31 24:00 (+07:00). The two-digit years of the parsers give no
\* date before 1969, and the zone has no other change from 1969 on.
Hour == 3600

DstBegin == Inst(ToOrdinal(2009, 6, 19), 23 * Hour, 0)

DstEnd == Inst(ToOrdinal(2009, 12, 31), 23 * Hour, 0)

InstLT(a, b) == ~InstLE(b, a)

PlusHour(t) ==
    IF t[2] + Hour >= 24 * Hour THEN Inst(t[1] + 1, t[2] + Hour - 24 * Hour, t[3])
    ELSE Inst(t[1], t[2] + Hour, t[3])

MinusHour(t) ==
    IF t[2] < Hour THEN Inst(t[1] - 1, t[2] + 24 * Hour - Hour, t[3])
    ELSE Inst(t[1], t[2] - Hour, t[3])

\* the offset of BD_TZ at the instant t is +07:00
InDst(t) == InstLE(DstBegin, t) /\ InstLT(t, DstEnd)

\* <<ordinal day, second of day, microsecond>> on the wall clock of BD_TZ at t
Wall(t) == IF InDst(t) THEN PlusHour(t) ELSE t

\* the fold of t: TRUE in the hour after DstEnd, whose wall clock readings
\* 23:00 to 24:00 of 2009-12-31 come a second time
Fold(t) == InstLE(DstEnd, t) /\ InstLT(t, PlusHour(DstEnd))

\* the instant of the wall clock reading w with the given fold. A reading
\* that comes twice is the first (+07:00) with fold 0 and the second with fold
\* 1; a reading the clock skips, 23:00 to 24:00 of 2009-06-19, takes the offset
\* before the change with fold 0 and the one after it with fold 1.
FromWall(w, fold) ==
    IF InstLE(DstBegin, w) /\ InstLT(w, PlusHour(DstBegin))
    THEN (IF fold THEN MinusHour(w) ELSE w)
    ELSE IF InstLE(PlusHour(DstBegin), w) /\ InstLT(w, DstEnd)
    THEN MinusHour(w)
    ELSE IF InstLE(DstEnd, w) /\ InstLT(w, PlusHour(DstEnd))
    THEN (IF fold THEN w ELSE MinusHour(w))
    ELSE w

\* the two-digit year of the parser pd.to_datetime falls back to without a
\* format: the year of the century of this_year, moved by a century when it is
\* 50 years or more after this_year or more than 50 years before it
convertyear(yy, this_year) ==
    LET year == yy + (this_year \div 100) * 100
    IN  IF year >= this_year + 50 THEN year - 100
        ELSE IF year < this_year - 50 THEN year + 100
        ELSE year

\* year, month, day as that parser reads them
YMDOrdinal(yy, m, d, this_year) ==
    IF ValidYMD(convertyear(yy, this_year), m, d)
    THEN ToOrdinal(convertyear(yy, this_year), m, d) ELSE NaT

\* that parser on the date part: a first number above 31 is the year, above 12
\* the day, else month/day/year
GenericParseDate(ds, this_year) ==
    IF ds[1] > 31 THEN YMDOrdinal(ds[1], ds[2], ds[3], this_year)
    ELSE IF ds[1] > 12 THEN YMDOrdinal(ds[3], ds[2], ds[1], this_year)
    ELSE YMDOrdinal(ds[3], ds[1], ds[2], this_year)

\* the same parser on the time part.  With AM or PM it is a 12-hour clock time
\* with hour 0..12.  Without a marker it is a 24-hour clock time.  Any other
\* marker the pattern date_prefix lets through is two capital letters, which the
\* parser takes for the name of a time zone behind a 24-hour clock time: pandas
\* up to 2.x drops the unknown zone and returns the time, pandas 3 raises, which
\* errors="coerce" turns into NaT
GenericParseTime(ts) ==
    IF ts[3] \in {"AM", "PM"}
    THEN (IF ts[1] \in 0..12 /\ ts[2] \in 0..59
          THEN (IF ts[3] = "PM" /\ ts[1] < 12 THEN ts[1] + 12
                ELSE IF ts[3] = "AM" /\ ts[1] = 12 THEN 0 ELSE ts[1]) * 60 + ts[2]
          ELSE NaT)
    ELSE IF ts[3] = "" \/ (ts[3] \in UpperMarkers /\ pandas = "2")
    THEN (IF ts[1] \in 0..23 /\ ts[2] \in 0..59 THEN ts[1] * 60 + ts[2] ELSE NaT)
    ELSE NaT

\* TRUE when to_bd_datetime returns get_bd_now(): neither parser reads the pair
ReadsClock(date_str, time_str, this_year) ==
    /\ ParseDate(date_str) = NaT \/ ParseTime(time_str) = NaT
    /\ GenericParseDate(date_str, this_year) = NaT \/ GenericParseTime(time_str) = NaT

\* now_bd is what get_bd_now() returns when the fallback is taken
to_bd_datetime(date_str, time_str, now_bd, this_year) ==
    IF ParseDate(date_str) # NaT /\ ParseTime(time_str) # NaT
    THEN FromWall(Inst(ParseDate(date_str), ParseTime(time_str) * 60, 0), FALSE)
    ELSE IF ~ReadsClock(date_str, time_str, this_year)
    THEN FromWall(Inst(GenericParseDate(date_str, this_year),
                       GenericParseTime(time_str) * 60, 0), FALSE)
    ELSE now_bd

\* the times of day of the two replace calls, on the day ord
LastMicrosecond(ord) == Inst(ord, 86399, 999999)

Midnight(ord) == Inst(ord, 0, 0)

DeltaToThursday(ord) == (3 - Weekday(ord) + 7) % 7

\* t + timedelta(days = n) of a pandas Timestamp t: n * 24 hours of absolute time
AddDays(t, n) == Inst(t[1] + n, t[2], t[3])

\* t.replace(hour, minute, second, microsecond) of a pandas Timestamp t: the
\* wall day of t with the new time of day, read with the fold of t
ReplaceLastMicrosecond(t) == FromWall(LastMicrosecond(Wall(t)[1]), Fold(t))

ReplaceMidnight(t) == FromWall(Midnight(Wall(t)[1]), Fold(t))

\* get_bd_week_range. With timestamp = TRUE now_bd is a pandas Timestamp (the
\* minimum of the bd_datetime column). With timestamp = FALSE it is the datetime
\* of get_bd_now(): its sums move the wall clock fields by whole days, come
\* back with fold 0 and keep a reading the wall clock skips as it is.
get_bd_week_range(now_bd, timestamp) ==
    IF timestamp
    THEN LET week_end == ReplaceLastMicrosecond(
                             AddDays(now_bd, DeltaToThursday(Wall(now_bd)[1])))
             week_start == ReplaceMidnight(AddDays(week_end, 0 - 6))
         IN  [start |-> week_start, end |-> week_end]
    ELSE LET thursday == Wall(now_bd)[1] + DeltaToThursday(Wall(now_bd)[1])
         IN  [start |-> FromWall(Midnight(thursday - 6), FALSE),
              end |-> FromWall(LastMicrosecond(thursday), FALSE)]

\* cursor <= current_week_end, a Timestamp against the datetime of
\* get_bd_week_range(get_bd_now()): the Timestamp is compared as the datetime
\* it converts to, and two datetimes of the one tzinfo BD_TZ compare by their
\* wall clock fields, whatever their offsets and folds
WallLE(t, d) == InstLE(Wall(t), Wall(d))

\* the while loop. cursor is a Timestamp, and pass k + 1 finds it k times 7 * 24
\* hours after its first value; the loop makes the passes whose cursor is not
\* after current_week_end, which are the first ones (most is more than their
\* number). end is six times 24 hours after start, moved to the last
\* microsecond of its wall day.
WeekRanges(cursor, current_week_end) ==
    LET most == (current_week_end[1] - cursor[1]) \div 7 + 2
        passes == Cardinality({k \in 0..(most - 1) :
                                  WallLE(AddDays(cursor, 7 * k), current_week_end)})
    IN  [k \in 1..passes |->
            LET start == AddDays(cursor, 7 * (k - 1))
            IN  [start |-> start,
                 end |-> ReplaceLastMicrosecond(AddDays(start, 6))]]

Reverse(s) == [i \in 1..Len(s) |-> s[Len(s) + 1 - i]]

InWeek(w, dt) == InstLE(w.start, dt) /\ InstLE(dt, w.end)

\* the week a record is appended to: the first whose range holds it (0: none)
WeekOf(ranges, dt) ==
    LET holding == {i \in 1..Len(ranges) : InWeek(ranges[i], dt)}
    IN  IF holding = {} THEN 0
        ELSE CHOOSE i \in holding : \A j \in holding : i <= j

(***************************************************************************)
(* The per-member report.                                                  *)
(***************************************************************************)
\* fillna("").astype(str)
FillNa(v) == IF v = NA THEN "" ELSE Str(v)

\* the mask of build_user_details
MatchesIdentifier(r, identifier) ==
    \/ FillNa(r.Phone) = identifier
    \/ Lower(FillNa(r.Name)) = Lower(identifier)

WithInstant(r, now_bd, this_year) ==
    [Name |-> FillNa(r.Name), Phone |-> FillNa(r.Phone), Amount |-> r.Amount,
     howSaved |-> r.howSaved,
     bd_datetime |-> to_bd_datetime(r.Date, r.Time, now_bd, this_year)]

\* insert r behind every row whose instant is not earlier (descending, stable)
RECURSIVE InsertByInstant(_, _)
InsertByInstant(sorted, r) ==
    IF sorted = <<>> THEN <<r>>
    ELSE IF ~InstLE(r.bd_datetime, Head(sorted).bd_datetime) THEN <<r>> \o sorted
    ELSE <<Head(sorted)>> \o InsertByInstant(Tail(sorted), r)

RECURSIVE SortByInstant(_, _)
SortByInstant(rows, acc) ==
    IF rows = <<>> THEN acc
    ELSE SortByInstant(Tail(rows), InsertByInstant(acc, Head(rows)))

\* row.get("howSaved") or "": the number 0 gives the empty text
Record(r) ==
    [datetime |-> r.bd_datetime, amount |-> r.Amount,
     howSaved |-> IF r.howSaved = <<Number(0)>> THEN <<>> ELSE r.howSaved]

Records(rows) == [i \in 1..Len(rows) |-> Record(rows[i])]

\* Timestamp.year and Timestamp.month of an ordinal day
YearOf(ord) ==
    LET y0 == (ord * 400) \div 146097
    IN  CHOOSE y \in y0..(y0 + 2) :
            ToOrdinal(y, 1, 1) <= ord /\ ord < ToOrdinal(y + 1, 1, 1)

MonthOf(ord) ==
    LET y == YearOf(ord)
        d == ord - ToOrdinal(y, 1, 1)
    IN  CHOOSE m \in 1..12 :
            DaysBeforeMonth(y, m) <= d /\ d < DaysBeforeMonth(y, m) + DaysInMonth(y, m)

MonthKey(r) == <<MonthOf(Wall(r.bd_datetime)[1]), YearOf(Wall(r.bd_datetime)[1])>>

YearKey(r) == YearOf(Wall(r.bd_datetime)[1])

\* monthly: the amounts summed per "Month Year" label
Monthly(df_user) ==
    {[key |-> k, total |-> SumAmount(SelectSeq(df_user, LAMBDA r : MonthKey(r) = k))]
        : k \in {MonthKey(df_user[i]) : i \in 1..Len(df_user)}}

\* yearly: the amounts summed per year
Yearly(df_user) ==
    {[key |-> k, total |-> SumAmount(SelectSeq(df_user, LAMBDA r : YearKey(r) = k))]
        : k \in {YearKey(df_user[i]) : i \in 1..Len(df_user)}}

\* the instant of the earliest row
OldestInstant(rows) ==
    (CHOOSE i \in 1..Len(rows) :
        \A j \in 1..Len(rows) : InstLE(rows[i].bd_datetime, rows[j].bd_datetime))

\* the rows of df_user, in order, that week_of files under week i
RECURSIVE Pick(_, _, _)
Pick(df_user, week_of, i) ==
    IF df_user = <<>> THEN <<>>
    ELSE (IF Head(week_of) = i THEN <<Head(df_user)>> ELSE <<>>)
         \o Pick(Tail(df_user), Tail(week_of), i)

\* weeks, latest first, each with the records assigned to it and their total
Weeks(df_user, now_end) ==
    LET oldest_dt == df_user[OldestInstant(df_user)].bd_datetime
        ranges == Reverse(WeekRanges(get_bd_week_range(oldest_dt, TRUE).start,
                                     get_bd_week_range(now_end, FALSE).end))
        week_of == [j \in 1..Len(df_user) |-> WeekOf(ranges, df_user[j].bd_datetime)]
    IN  [i \in 1..Len(ranges) |->
            LET mine == Pick(df_user, week_of, i)
            IN  [start |-> ranges[i].start, end |-> ranges[i].end,
                 records |-> Records(mine), total |-> SumAmount(mine)]]

\* df[mask]: the rows of the loaded ledger the identifier selects
Matched(identifier, df_data) ==
    SelectSeq(df_data, LAMBDA r : MatchesIdentifier(r, identifier))

\* the rows among the first i of rows for which to_bd_datetime reads the clock
ClockRows(rows, i, this_year) ==
    {j \in 1..i : ReadsClock(rows[j].Date, rows[j].Time, this_year)}

\* build_user_details after a load that returned df_data; nows are the instants
\* get_bd_now() returns to to_bd_datetime, one per row that takes its fallback,
\* in the order of the rows; now_end is the later one read for the weeks
build_user_details(identifier, df_data, nows, now_end, this_year) ==
    IF df_data = <<>> THEN [kind |-> "no_data", identifier |-> identifier]
    ELSE LET matched == Matched(identifier, df_data)
             now_row(i) == IF i \in ClockRows(matched, i, this_year)
                           THEN nows[Cardinality(ClockRows(matched, i, this_year))]
                           ELSE now_end
             df_user == SortByInstant(
                            [i \in 1..Len(matched) |->
                                WithInstant(matched[i], now_row(i), this_year)], <<>>)
         IN  IF matched = <<>> THEN [kind |-> "user_not_found", identifier |-> identifier]
             ELSE [kind |-> "details", identifier |-> identifier,
                   name |-> IF df_user[1].Name = "" THEN "Unknown" ELSE df_user[1].Name,
                   phone |-> df_user[1].Phone,
                   records |-> Records(df_user),
                   monthly |-> Monthly(df_user),
                   yearly |-> Yearly(df_user),
                   weeks |-> Weeks(df_user, now_end),
                   now_end |-> now_end]

(***************************************************************************)
(* The read endpoints run in worker threads, beside the event loop.        *)
(* load_dataframes_from_excel reads the two sheets one after the other.    *)
(***************************************************************************)
Identifiers == {"alice", "Bob", "+880 172", "+880171", "Dave"}

\* what get_bd_now() may return: 2/29/24 is a Thursday, 3/29/24 a Friday
Clock ==
    { Inst(ToOrdinal(2024, 2, 29), 43200, 500000),
      Inst(ToOrdinal(2024, 3, 29), 0, 0) }

\* what get_bd_now() may return on Thursday 12/31/09 when the wall clock shows
\* 23:30: at +07:00, and an hour later at +06:00
Clock2009 ==
    { Inst(ToOrdinal(2009, 12, 31), 81000, 0),
      Inst(ToOrdinal(2009, 12, 31), 84600, 0) }

\* the instants n successive calls of get_bd_now() return, the last of them not
\* after now_end
ClockReads(n, now_end) ==
    {nows \in [1..n -> clock] :
        /\ \A i \in 1..n : InstLE(nows[i], now_end)
        /\ \A i \in 1..(n - 1) : InstLE(nows[i], nows[i + 1])}

\* parserinfo._year of the fallback parser: the year of the clock when the
\* process was loaded; the clock of the model stays within one year
ParserYear(now_bd) == YearOf(Wall(now_bd)[1])

ReadOps == {"table", "user"}

\* load_dataframes_from_excel up to the Data sheet: an absent file gives the two
\* empty frames, a file open for writing does not parse
LoadData(op) ==
    /\ rd.pc = "idle"
    /\ IF file.st = "partial"
       THEN /\ report' = [kind |-> "unreadable"]
            /\ rd' = rd
       ELSE /\ rd' = [pc |-> "loaded", op |-> op, st |-> file.st,
                      df_data |-> ReadExcelData(file.data), cells |-> file.data,
                      ver |-> file.ver]
            /\ report' = report
    /\ UNCHANGED <<file, prior, lastNew, up, nUploads, tk, log, pandas, clock>>

\* the Summary sheet as load_dataframes_from_excel returns it
LoadedSummary == IF rd.st = "absent" THEN EmptyBag ELSE ReadExcelSummary(file.summary)

\* the read of the Summary sheet fails on a file open for writing
SummaryUnreadable == rd.st # "absent" /\ file.st = "partial"

\* table_view / summary_table_view: the frames as loaded; snapshot tells whether
\* both sheets came from the same save
TableView ==
    /\ rd.pc = "loaded" /\ rd.op = "table"
    /\ report' = IF SummaryUnreadable THEN [kind |-> "unreadable"]
                 ELSE [kind |-> "frames", df_data |-> rd.df_data,
                       df_summary |-> LoadedSummary,
                       snapshot |-> (rd.st = "absent" \/ rd.ver = file.ver)]
    /\ rd' = [rd EXCEPT !.pc = "idle"]
    /\ UNCHANGED <<file, prior, lastNew, up, nUploads, tk, log, pandas, clock>>

\* user_details: the rest of the load, then build_user_details
UserDetails ==
    /\ rd.pc = "loaded" /\ rd.op = "user"
    /\ \E identifier \in Identifiers, now_end \in clock :
         LET this_year == ParserYear(now_end)
             reads == Cardinality(ClockRows(Matched(identifier, rd.df_data),
                                            Len(Matched(identifier, rd.df_data)),
                                            this_year))
         IN  \E nows \in ClockReads(reads, now_end) :
                 report' = IF SummaryUnreadable THEN [kind |-> "unreadable"]
                           ELSE build_user_details(identifier, rd.df_data, nows,
                                                   now_end, this_year)
    /\ rd' = [rd EXCEPT !.pc = "idle"]
    /\ UNCHANGED <<file, prior, lastNew, up, nUploads, tk, log, pandas, clock>>

\* the history of the merged messages is not kept
NoLog == [on |-> FALSE, sent |-> <<>>, resent |-> FALSE]

\* the releases of pandas that differ on a string with an unknown zone name
Releases == {"2", "3"}

Init ==
    /\ file = NoFile
    /\ prior = NoFile
    /\ up = [u \in Uploaders |-> IdleUpload(NoResponse)]
    /\ nUploads = 0
    /\ rd = [pc |-> "idle", op |-> "none", st |-> "absent", df_data |-> <<>>,
             cells |-> <<>>, ver |-> 0]
    /\ report = [kind |-> "none"]
    /\ lastNew = 0
    /\ log = NoLog
    /\ tk = NoParse
    /\ pandas \in Releases
    /\ clock = Clock

\* the upload endpoint alone
NextMerge ==
    \/ \E u \in Uploaders : UploadReceive(u)
    \/ \E u \in Uploaders : UploadNoMessages(u)
    \/ \E u \in Uploaders : MergeBegin(u)
    \/ \E u \in Uploaders : MergeCommit(u)

\* the upload endpoint and the read endpoints
Next ==
    \/ \E u \in Uploaders : UploadReceive(u)
    \/ \E u \in Uploaders : UploadNoMessages(u)
    \/ \E u \in Uploaders : MergeBegin(u)
    \/ \E u \in Uploaders : MergeCommit(u)
    \/ \E op \in ReadOps : LoadData(op)
    \/ TableView
    \/ UserDetails

\* The read endpoints change neither the workbook nor an upload: the claims about
\* the merge are checked on the upload endpoint alone, the others with the readers.
SpecMerge == Init /\ [][NextMerge]_vars

Spec == Init /\ [][Next]_vars

\* the upload endpoint alone, with the history of the merged messages
InitLog ==
    /\ file = NoFile
    /\ prior = NoFile
    /\ up = [u \in Uploaders |-> IdleUpload(NoResponse)]
    /\ nUploads = 0
    /\ rd = [pc |-> "idle", op |-> "none", st |-> "absent", df_data |-> <<>>,
             cells |-> <<>>, ver |-> 0]
    /\ report = [kind |-> "none"]
    /\ lastNew = 0
    /\ log = [NoLog EXCEPT !.on = TRUE]
    /\ tk = NoParse
    /\ pandas \in Releases
    /\ clock = Clock

SpecLog == InitLog /\ [][NextMerge]_vars

\* the tokenizer alone, on every export of the model
InitParse ==
    /\ file = NoFile
    /\ prior = NoFile
    /\ up = [u \in Uploaders |-> IdleUpload(NoResponse)]
    /\ nUploads = 0
    /\ rd = [pc |-> "idle", op |-> "none", st |-> "absent", df_data |-> <<>>,
             cells |-> <<>>, ver |-> 0]
    /\ report = [kind |-> "none"]
    /\ lastNew = 0
    /\ log = NoLog
    /\ tk \in {[lines |-> e, i |-> 0, current |-> <<>>, messages |-> <<>>,
                done |-> FALSE] : e \in Exports}
    /\ pandas \in Releases
    /\ clock = Clock

NextParse ==
    \/ ParseLine
    \/ ParseReturn

SpecParse == InitParse /\ [][NextParse]_vars

\* The messages of an export merged before the server started: deposits made
\* around the two changes of BD_TZ in 2009, and one of 2024.  6/12/09, 6/26/09
\* and 12/25/09 are Fridays, 1/7/10 is a Thursday, 3/6/24 a Wednesday.
MaxEarlier == 2

EarlierPool ==
    { Msg(<<6, 12, 9>>, <<10, 0, "AM">>, "Bob", <<Num(10), Cur>>),
      Msg(<<6, 26, 9>>, <<12, 30, "AM">>, "Bob", <<Num(20), Cur>>),
      Msg(<<12, 25, 9>>, <<7, 0, "AM">>, "Bob", <<Num(50), Cur>>),
      Msg(<<1, 7, 10>>, <<10, 0, "AM">>, "Bob", <<Num(40), Cur>>),
      Msg(<<3, 6, 24>>, <<8, 15, "AM">>, "Bob", <<Num(200)>>),
      Msg(<<3, 5, 24>>, <<9, 0, "PM">>, "Alice", <<Word, Num(160), Cur>>) }

EarlierLists == UNION {[1..n -> EarlierPool] : n \in 1..MaxEarlier}

\* the workbook the first upload of msgs leaves
FirstWorkbook(msgs, book) ==
    LET r == build_dataframes_from_messages(msgs, book, NoFile)
    IN  [st |-> "ok", data |-> ToExcelData(r.df_data),
         summary |-> ToExcelSummary(r.df_summary), ver |-> 1,
         new_rows_count |-> r.new_rows_count]

\* the read endpoints alone, on a workbook an earlier upload has written
InitDetails ==
    /\ \E msgs \in EarlierLists, book \in ContactTables :
          LET w == FirstWorkbook(msgs, book)
          IN  /\ w.new_rows_count > 0
              /\ file = [st |-> w.st, data |-> w.data, summary |-> w.summary,
                         ver |-> w.ver]
              /\ lastNew = w.new_rows_count
    /\ prior = NoFile
    /\ up = [u \in Uploaders |-> IdleUpload(NoResponse)]
    /\ nUploads = 1
    /\ rd = [pc |-> "idle", op |-> "none", st |-> "absent", df_data |-> <<>>,
             cells |-> <<>>, ver |-> 0]
    /\ report = [kind |-> "none"]
    /\ log = NoLog
    /\ tk = NoParse
    /\ pandas \in Releases
    /\ clock \in {Clock, Clock2009}

NextDetails ==
    \/ \E op \in ReadOps : LoadData(op)
    \/ TableView
    \/ UserDetails

SpecDetails == InitDetails /\ [][NextDetails]_vars

(***************************************************************************)
(* Properties.  "Appended" rows are those of the Data sheet behind the     *)
(* rows it held before the last write began.                               *)
(***************************************************************************)
Saved == file.st = "ok"

AppendedRows == (Len(prior.data) + 1)..Len(file.data)

ParsedDates(cells) == {ParseDate(cells[i].Date) : i \in 1..Len(cells)} \ {NaT}

\* C1: a merge appends no row whose date is on or before the latest date the
\* ledger held before the merge.
C1_MergeCutoff ==
    Saved =>
        \A i \in AppendedRows : \A d \in ParsedDates(prior.data) :
            ParseDate(file.data[i].Date) = NaT \/ ParseDate(file.data[i].Date) > d

\* a merge on a dated ledger has appended a dated row
C1_Witness ==
    /\ Saved
    /\ ParsedDates(prior.data) # {}
    /\ \E i \in AppendedRows : ParseDate(file.data[i].Date) # NaT

\* C2: every row the ledger held before a merge is still there after it,
\* unchanged and at the same position, and the appended rows come behind them.
C2_AppendOnly ==
    Saved =>
        /\ Len(prior.data) <= Len(file.data)
        /\ \A i \in 1..Len(prior.data) : file.data[i] = prior.data[i]

\* date and time both parsable
Dated(r) == ParseDate(r.Date) # NaT /\ ParseTime(r.Time) # NaT

\* r may stand before q in (date descending, time descending) order
DescendingPair(r, q) ==
    \/ ParseDate(r.Date) > ParseDate(q.Date)
    \/ ParseDate(r.Date) = ParseDate(q.Date) /\ ParseTime(r.Time) >= ParseTime(q.Time)

\* C3 as stated: whenever a merge has written the ledger, the whole ledger is
\* sorted by (date descending, time descending).
C3_WholeLedgerSorted ==
    Saved =>
        \A i, j \in 1..Len(file.data) :
            (i < j /\ Dated(file.data[i]) /\ Dated(file.data[j]))
                => DescendingPair(file.data[i], file.data[j])

\* C3 as amended: the rows one merge appends are sorted among themselves by
\* (date descending, time descending), unparsable dates and times last.
C3_BatchSorted ==
    Saved =>
        \A i, j \in AppendedRows :
            i < j => ~SortsBefore(file.data[j], file.data[i])

\* a merge has appended two rows of different days to a ledger that held some
C3_Witness ==
    /\ Saved
    /\ prior.data # <<>>
    /\ \E i, j \in AppendedRows : DateKey(file.data[i]) < DateKey(file.data[j])

RECURSIVE SumTotals(_)
SumTotals(S) ==
    IF S = {} THEN 0
    ELSE LET x == CHOOSE y \in S : TRUE IN x.Total_Amount + SumTotals(S \ {x})

\* C4: after every merge the summary totals add up to the ledger amounts, and
\* each (name, phone) of a ledger row has exactly one summary entry.
C4_SummaryInvariant ==
    Saved =>
        /\ SumTotals(file.summary) = SumAmount(file.data)
        /\ \A i \in 1..Len(file.data) :
              Cardinality({e \in file.summary :
                  e.Name = file.data[i].Name /\ e.Phone = file.data[i].Phone}) = 1

\* C5: a reader of the workbook gets both sheets, and both from the same save.
C5_AtomicWrite ==
    /\ report.kind # "unreadable"
    /\ report.kind = "frames" => report.snapshot

Writing == {u \in Uploaders : up[u].pc = "writing"}

\* C6: merges are serialized: at most one upload is between its read of the
\* workbook and its save, the workbook is open for writing exactly then, and
\* the ledger it is about to save is the ledger last saved, as the merge reads
\* it, followed by the rows the merge accepted.
C6_SerializedMerges ==
    /\ Cardinality(Writing) <= 1
    /\ (file.st = "partial") = (Writing # {})
    /\ \A u \in Writing :
          /\ Len(prior.data) <= Len(up[u].df_data)
          /\ SubSeq(up[u].df_data, 1, Len(prior.data)) = OldFrame(prior)
          /\ Len(up[u].df_data) = Len(prior.data) + up[u].new_rows_count

\* one upload is writing new rows while another request waits for the event loop
C6_Witness ==
    \E u, v \in Uploaders :
        /\ up[u].pc = "writing" /\ up[v].pc = "reading"
        /\ up[u].new_rows_count > 0

\* C7: a merge that appends no row leaves both sheets as they were.
C7_EmptyMergeNoOp ==
    (Saved /\ lastNew = 0) =>
        /\ file.data = prior.data
        /\ file.summary = prior.summary

\* the buckets that hold a record; the total of any other is 0
Filled(ws) == SelectSeq(ws, LAMBDA w : w.records # <<>>)

RECURSIVE SumWeekTotals(_)
SumWeekTotals(ws) == IF ws = <<>> THEN 0 ELSE Head(ws).total + SumWeekTotals(Tail(ws))

RECURSIVE CountWeekRecords(_)
CountWeekRecords(ws) ==
    IF ws = <<>> THEN 0 ELSE Len(Head(ws).records) + CountWeekRecords(Tail(ws))

RECURSIVE SumRecordAmounts(_)
SumRecordAmounts(rs) == IF rs = <<>> THEN 0 ELSE Head(rs).amount + SumRecordAmounts(Tail(rs))

Detailed == report.kind = "details"

\* C8: in a report every matched record is in exactly one week bucket, so the
\* bucket totals add up to the member's amounts.
C8_EveryRecordInOneWeek ==
    Detailed =>
        /\ \A i \in 1..Len(report.records) :
              Cardinality({w \in 1..Len(report.weeks) :
                  InWeek(report.weeks[w], report.records[i].datetime)}) = 1
        /\ CountWeekRecords(Filled(report.weeks)) = Len(report.records)
        /\ SumWeekTotals(Filled(report.weeks)) = SumRecordAmounts(report.records)

\* C9: the week buckets run Friday 00:00:00 to Thursday 23:59:59.999999, follow
\* one another by 7 days, newest first, from the week of the current instant
\* back to the week of the member's earliest record.
C9_WeekStructure ==
    Detailed =>
        LET ws == report.weeks
            oldest == report.records[Len(report.records)].datetime
        IN  /\ ws # <<>>
            /\ \A i \in 1..Len(ws) :
                  /\ Weekday(Wall(ws[i].start)[1]) = 4
                  /\ Wall(ws[i].start) = <<Wall(ws[i].start)[1], 0, 0>>
                  /\ Wall(ws[i].end) = <<Wall(ws[i].start)[1] + 6, 86399, 999999>>
            /\ \A i \in 1..(Len(ws) - 1) :
                  Wall(ws[i].start)[1] = Wall(ws[i + 1].start)[1] + 7
            /\ InWeek(ws[1], report.now_end)
            /\ InWeek(ws[Len(ws)], oldest)

UserKinds == {"no_data", "user_not_found", "details"}

\* a row of the persisted ledger has the identifier in its Phone cell, or in
\* its Name cell whatever the case
SomeRowMatches(cells, identifier) ==
    \E i \in 1..Len(cells) :
        \/ Str(cells[i].Phone) = identifier
        \/ Lower(Str(cells[i].Name)) = Lower(identifier)

LookupDone == rd.pc = "idle" /\ rd.op = "user" /\ report.kind \in UserKinds

\* C10: a lookup answers "no data" on an empty or absent ledger, "user not
\* found" on a ledger with no row for the identifier, and a report otherwise;
\* it leaves the workbook as it is.
C10_LookupSignals ==
    /\ [](LookupDone =>
            /\ (report.kind = "no_data") = (rd.cells = <<>>)
            /\ (report.kind = "details") = SomeRowMatches(rd.cells, report.identifier)
            /\ (rd.st = "absent") => (report.kind = "no_data"))
    /\ [][(rd.pc = "loaded" /\ rd'.pc = "idle") => file' = file]_vars

(***************************************************************************)
(* C11  Tokenizer segmentation.                                            *)
(***************************************************************************)
\* the message-start lines of an export
StartLines(ls) == {i \in 1..Len(ls) : date_prefix_match(Replace(ls[i]))}

\* the k-th message-start line, and the line where the message of start line s ends
NthStart(ls, k) ==
    CHOOSE s \in StartLines(ls) : Cardinality({t \in StartLines(ls) : t <= s}) = k

LastLineOf(ls, s) ==
    IF \E t \in StartLines(ls) : t > s
    THEN (CHOOSE t \in StartLines(ls) :
              t > s /\ \A q \in StartLines(ls) : q > s => t <= q) - 1
    ELSE Len(ls)

\* a single space and the trimmed content of each of the lines lo..hi, in order
RECURSIVE ContinuationText(_, _, _)
ContinuationText(ls, lo, hi) ==
    IF lo > hi THEN <<>>
    ELSE <<Sp>> \o Strip(Chars(Replace(ls[lo]))) \o ContinuationText(ls, lo + 1, hi)

\* C11: when parse_messages_from_string returns, its output has exactly one
\* message per message-start line, in input order; the date, time and sender of
\* a message are those of its start line, and its text is the text part of the
\* start line followed, for every line between that start line and the next one
\* (or the end of the input), by a single space and the trimmed content of the
\* line; lines before the first start line are in no message.
C11_Segmentation ==
    tk.done =>
        /\ Len(tk.messages) = Cardinality(StartLines(tk.lines))
        /\ \A k \in 1..Len(tk.messages) :
             LET s == NthStart(tk.lines, k)
             IN  tk.messages[k] =
                   [StartMessage(Replace(tk.lines[s])) EXCEPT
                      !.text = @ \o ContinuationText(tk.lines, s + 1,
                                                    LastLineOf(tk.lines, s))]

\* a run that returned two messages from an export that begins with a line of no
\* message and whose first message has a continuation line
C11_Witness ==
    /\ tk.done
    /\ Len(tk.lines) = MaxLines
    /\ Len(tk.messages) = 2
    /\ 1 \notin StartLines(tk.lines)
    /\ StartLines(tk.lines) = {2, 4}
    /\ Strip(Chars(Replace(tk.lines[3]))) # <<>>
    /\ tk.messages[1].text # StartMessage(Replace(tk.lines[2])).text

(***************************************************************************)
(* C12  Row emission rule.                                                 *)
(***************************************************************************)
\* the rule as stated: a sender, a date that is unparsable or after the cutoff,
\* a text the classifier accepts, and an amount (zero or more) from the extractor
StatedToEmit(msg, cutoff) ==
    /\ msg.sender # NoSender
    /\ (ParseDate(msg.date) = NaT \/ cutoff = NaT \/ ParseDate(msg.date) > cutoff)
    /\ is_saving_message(msg.text)
    /\ extract_amount(msg.text) # NoAmount

\* the appended row of a message
RowOf(msg, r) ==
    /\ r.Date = msg.date
    /\ r.Time = msg.time
    /\ r.howSaved = msg.text
    /\ r.Amount = extract_amount(msg.text)

\* C12: in a saved merge, the messages that produced an appended row are exactly
\* those with a sender, a date that is unparsable or strictly after the cutoff
\* date, a text accepted by is_saving_message and an amount (a positive-or-zero
\* integer) returned by extract_amount: there are as many appended rows as such
\* messages, and each of them has its row among the appended rows.
C12_RowEmission ==
    (Saved /\ log.on /\ log.sent # <<>>) =>
        LET cutoff == get_last_date_from_excel(prior)
            stated == {i \in 1..Len(log.sent) : StatedToEmit(log.sent[i], cutoff)}
        IN  /\ lastNew = Cardinality(stated)
            /\ Len(file.data) = Len(prior.data) + Cardinality(stated)
            /\ \A i \in stated :
                 \E j \in AppendedRows : RowOf(log.sent[i], file.data[j])

(***************************************************************************)
(* C13  Re-upload.                                                         *)
(***************************************************************************)
\* C13: a merge of the same parsed messages as the merge saved just before it
\* appends no row: its count of new rows is 0 and the ledger it saves is the
\* ledger the first of the two merges saved.
C13_ReuploadNoOp ==
    (Saved /\ log.on /\ log.resent) => (lastNew = 0 /\ file.data = prior.data)

====
